---- MODULE Spec2Model ----
(***************************************************************************)
(* Object store of codecrafters-git-rust (src/src/main.rs): hash-object,   *)
(* cat-file and ls-tree over ./.git/objects.                               *)
(*                                                                         *)
(* Byte strings are sequences of integers 0..255; a Rust String is the     *)
(* sequence of its UTF-8 bytes.  A Result is a record whose kind is "Ok",  *)
(* "Err" (an anyhow error returned with ?) or "Panic" (unwrap, expect or   *)
(* an out-of-range index or slice).                                        *)
(***************************************************************************)
EXTENDS Integers, Sequences, FiniteSets, TLC

\* ---- bounds of the model ----
MaxLen == 1
MaxObjects == 2
MaxEntries == 2

\* ---- program constants ----
NUL == 0
SP == 32
HashLen == 20
DigestLen == 20
AdlerMod == 65521
U32Digits == 10
LengthCap == 1000000000

BlobTok == <<98, 108, 111, 98>>
TreeTok == <<116, 114, 101, 101>>
CommitTok == <<99, 111, 109, 109, 105, 116>>
TagTok == <<116, 97, 103>>
U32MaxDigits == <<4, 2, 9, 4, 9, 6, 7, 2, 9, 5>>
Replacement == <<239, 191, 189>>

\* ---- slices and splits ----
Take(s, n) == SubSeq(s, 1, IF n < Len(s) THEN n ELSE Len(s))
Skip(s, n) == SubSeq(s, n + 1, Len(s))

\* iter().position(|&b| b == x): 0-based index of the first x, or -1 (None)
Least(S) == CHOOSE m \in S : \A k \in S : m <= k

Position(s, x) ==
    LET found == {i \in 1..Len(s) : s[i] = x}
    IN IF found = {} THEN -1 ELSE Least(found) - 1

\* slice::split(|&b| b == x): every x is a separator; never empty
RECURSIVE Split(_, _)
Split(s, x) ==
    LET p == Position(s, x)
    IN IF p = -1 THEN <<s>>
       ELSE <<SubSeq(s, 1, p)>> \o Split(Skip(s, p + 1), x)

\* ---- UTF-8 (String::from_utf8, fs::read_to_string, from_utf8_lossy) ----
IsCont(s, i) == i <= Len(s) /\ s[i] >= 128 /\ s[i] <= 191
InRange(s, i, lo, hi) == i <= Len(s) /\ s[i] >= lo /\ s[i] <= hi

Utf8Width(b) ==
    IF b < 128 THEN 1
    ELSE IF b >= 194 /\ b <= 223 THEN 2
    ELSE IF b >= 224 /\ b <= 239 THEN 3
    ELSE IF b >= 240 /\ b <= 244 THEN 4
    ELSE 0

SecondOk(s, i) ==
    LET b == s[i]
    IN CASE b = 224 -> InRange(s, i + 1, 160, 191)
         [] b = 237 -> InRange(s, i + 1, 128, 159)
         [] b = 240 -> InRange(s, i + 1, 144, 191)
         [] b = 244 -> InRange(s, i + 1, 128, 143)
         [] OTHER -> IsCont(s, i + 1)

\* the chunk that starts at i: a whole character, or the longest invalid run
Utf8Chunk(s, i) ==
    LET w == Utf8Width(s[i])
    IN IF w = 1 THEN [valid |-> TRUE, len |-> 1]
       ELSE IF w = 0 THEN [valid |-> FALSE, len |-> 1]
       ELSE IF ~SecondOk(s, i) THEN [valid |-> FALSE, len |-> 1]
       ELSE IF w = 2 THEN [valid |-> TRUE, len |-> 2]
       ELSE IF ~IsCont(s, i + 2) THEN [valid |-> FALSE, len |-> 2]
       ELSE IF w = 3 THEN [valid |-> TRUE, len |-> 3]
       ELSE IF ~IsCont(s, i + 3) THEN [valid |-> FALSE, len |-> 3]
       ELSE [valid |-> TRUE, len |-> 4]

\* valid: every byte that is no continuation byte starts a whole character,
\* and every continuation byte belongs to the character started before it
IsUtf8(s) ==
    \A i \in 1..Len(s) :
        IF s[i] >= 128 /\ s[i] <= 191
        THEN \E k \in 1..3 : /\ i - k >= 1
                             /\ Utf8Width(s[i - k]) > k
                             /\ \A j \in (i - k + 1)..(i - 1) : IsCont(s, j)
        ELSE Utf8Chunk(s, i).valid

RECURSIVE LossyFrom(_, _)
LossyFrom(s, i) ==
    IF i > Len(s) THEN <<>>
    ELSE LET c == Utf8Chunk(s, i)
         IN (IF c.valid THEN SubSeq(s, i, i + c.len - 1) ELSE Replacement)
            \o LossyFrom(s, i + c.len)

Utf8Lossy(s) == LossyFrom(s, 1)

\* ---- decimal text (format!("{}", usize), str::parse::<u32>) ----
RECURSIVE ToDecimal(_)
ToDecimal(n) ==
    IF n < 10 THEN <<48 + n>>
    ELSE ToDecimal(n \div 10) \o <<48 + (n % 10)>>

IsDigits(s) == \A i \in 1..Len(s) : s[i] >= 48 /\ s[i] <= 57

RECURSIVE StripZeros(_)
StripZeros(s) ==
    IF Len(s) > 0 /\ s[1] = 48 THEN StripZeros(Tail(s)) ELSE s

RECURSIVE DigitsLeq(_, _, _)
DigitsLeq(s, m, i) ==
    IF i > Len(s) THEN TRUE
    ELSE IF s[i] - 48 < m[i] THEN TRUE
    ELSE IF s[i] - 48 > m[i] THEN FALSE
    ELSE DigitsLeq(s, m, i + 1)

RECURSIVE DigitsValue(_, _)
DigitsValue(s, acc) ==
    IF s = <<>> THEN acc ELSE DigitsValue(Tail(s), acc * 10 + (s[1] - 48))

\* u32::from_str: an optional '+', then one or more digits, at most u32::MAX.
\* A value of ten digits is reported as LengthCap: it is past the end of
\* every buffer of the model, and the code only compares it with positions.
ParseU32(s) ==
    LET body == IF Len(s) > 0 /\ s[1] = 43 THEN Tail(s) ELSE s
        sig == StripZeros(body)
    IN IF body = <<>> \/ ~IsDigits(body) THEN [ok |-> FALSE, val |-> 0]
       ELSE IF Len(sig) > U32Digits THEN [ok |-> FALSE, val |-> 0]
       ELSE IF Len(sig) = U32Digits
            THEN [ok |-> DigitsLeq(sig, U32MaxDigits, 1), val |-> LengthCap]
       ELSE [ok |-> TRUE, val |-> DigitsValue(sig, 0)]

\* ---- results ----
NoObject == [type |-> "None", length |-> 0, content |-> <<>>, elements |-> <<>>]
Ok(obj) == [kind |-> "Ok", err |-> "", obj |-> obj]
Err(msg) == [kind |-> "Err", err |-> msg, obj |-> NoObject]
Panic(msg) == [kind |-> "Panic", err |-> msg, obj |-> NoObject]

\* ---- hex::encode ----
HexDigit(n) == IF n < 10 THEN 48 + n ELSE 87 + n

HexEncode(bytes) ==
    [i \in 1..(2 * Len(bytes)) |->
        IF i % 2 = 1 THEN HexDigit(bytes[(i + 1) \div 2] \div 16)
        ELSE HexDigit(bytes[i \div 2] % 16)]

\* ---- calculate_sha_hash ----
\* SHA-1 is represented by a 20-byte digest that is collision-free on inputs
\* of at most 19 bytes (every object hash_object builds in the model): byte
\* i < 20 sums the input bytes at positions congruent to i modulo 19, and
\* byte 20 is the input length.
RECURSIVE FoldSum(_, _)
FoldSum(s, i) ==
    IF i > Len(s) THEN 0
    ELSE (s[i] + FoldSum(s, i + (DigestLen - 1))) % 256

calculate_sha_hash_header_only(object_content) ==
    LET p == Position(object_content, NUL)
        h == IF p = -1 THEN object_content ELSE SubSeq(object_content, 1, p + 1)
    IN [i \in 1..DigestLen |->
           IF i < DigestLen THEN FoldSum(h, i) ELSE Len(h) % 256]

calculate_sha_hash(object_content) ==
    [i \in 1..DigestLen |->
        IF i < DigestLen THEN FoldSum(object_content, i)
        ELSE Len(object_content) % 256]

\* ---- zlib_compress / ZlibDecoder ----
\* The zlib container: the two header bytes of Compression::default(), the
\* data as one literal run (the deflate coding itself is not represented),
\* and the big-endian Adler-32 of the data.
\* the sum of weight * byte over positions lo..hi, halving the range
RECURSIVE WeightedSum(_, _, _, _)
WeightedSum(s, lo, hi, weighted) ==
    IF lo > hi THEN 0
    ELSE IF lo = hi
    THEN (IF weighted THEN (Len(s) - lo + 1) * s[lo] ELSE s[lo]) % AdlerMod
    ELSE LET mid == (lo + hi) \div 2
         IN (WeightedSum(s, lo, mid, weighted)
             + WeightedSum(s, mid + 1, hi, weighted)) % AdlerMod

Adler32(s) ==
    LET a == (1 + WeightedSum(s, 1, Len(s), FALSE)) % AdlerMod
        b == (Len(s) + WeightedSum(s, 1, Len(s), TRUE)) % AdlerMod
    IN <<b \div 256, b % 256, a \div 256, a % 256>>

ZlibHeader == <<120, 156>>

zlib_compress(object_content) ==
    ZlibHeader \o object_content \o Adler32(object_content)

zlib_decompress(z) ==
    IF Len(z) < 6 \/ SubSeq(z, 1, 2) # ZlibHeader
    THEN [ok |-> FALSE, bytes |-> <<>>]
    ELSE LET body == SubSeq(z, 3, Len(z) - 4)
         IN IF SubSeq(z, Len(z) - 3, Len(z)) = Adler32(body)
            THEN [ok |-> TRUE, bytes |-> body]
            ELSE [ok |-> FALSE, bytes |-> <<>>]

\* ---- object path: ./.git/objects/<first two chars>/<the rest> ----
ObjectPath(id) == <<Take(id, 2), Skip(id, 2)>>

\* ---- format!("blob {}{}{}", content_length, '\0', file_content) ----
object_content_of(file_content) ==
    BlobTok \o <<SP>> \o ToDecimal(Len(file_content)) \o <<NUL>> \o file_content

\* ---- bytes_to_object_type ----
bytes_to_object_type(object_type_bytes) ==
    IF ~IsUtf8(object_type_bytes) THEN [ok |-> FALSE, type |-> "None", err |-> "FromUtf8Error"]
    ELSE IF object_type_bytes = BlobTok THEN [ok |-> TRUE, type |-> "Blob", err |-> ""]
    ELSE IF object_type_bytes = TreeTok THEN [ok |-> TRUE, type |-> "Tree", err |-> ""]
    ELSE [ok |-> FALSE, type |-> "None", err |-> "Invalid object type."]

\* ---- BlobObject::from_bytes ----
BlobContent(input) ==
    LET parts == Split(input, NUL)
    IN parts[Len(parts)]

BlobObject_from_bytes(input) ==
    LET parts == Split(input, NUL)
        header == Split(parts[1], SP)
        t == bytes_to_object_type(header[1])
    IN IF ~(t.ok /\ t.type = "Blob") THEN Err("Object is not of type Blob.")
       ELSE IF Len(header) < 2 THEN Panic("unwrap on None")
       ELSE IF ~IsUtf8(header[2]) THEN Err("FromUtf8Error")
       ELSE IF ~ParseU32(header[2]).ok THEN Err("ParseIntError")
       ELSE Ok([type |-> "Blob", length |-> ParseU32(header[2]).val,
                content |-> Utf8Lossy(BlobContent(input)), elements |-> <<>>])

\* ---- TreeElement::from_bytes ----
NoElement == [mode |-> <<>>, object_type |-> "None", hash |-> <<>>, name |-> <<>>]

TreeElement_from_bytes(input) ==
    LET p == Position(input, SP)
        mode_bytes == IF p = -1 THEN input ELSE SubSeq(input, 1, p)
        rest == Skip(input, Len(mode_bytes) + 1)
        q == Position(rest, NUL)
        name_bytes == IF q = -1 THEN rest ELSE SubSeq(rest, 1, q)
        hash_begin_pos == Len(mode_bytes) + 1 + Len(name_bytes)
    IN IF ~IsUtf8(mode_bytes) THEN [kind |-> "Err", err |-> "FromUtf8Error", el |-> NoElement]
       ELSE IF Len(mode_bytes) + 1 > Len(input)
            THEN [kind |-> "Panic", err |-> "range start out of range", el |-> NoElement]
       ELSE IF ~IsUtf8(name_bytes) THEN [kind |-> "Err", err |-> "FromUtf8Error", el |-> NoElement]
       ELSE IF hash_begin_pos + HashLen > Len(input)
            THEN [kind |-> "Panic", err |-> "range end out of range", el |-> NoElement]
       ELSE [kind |-> "Ok", err |-> "",
             el |-> [mode |-> mode_bytes, object_type |-> "Blob",
                     hash |-> SubSeq(input, hash_begin_pos + 1, hash_begin_pos + HashLen),
                     name |-> name_bytes]]

\* ---- TreeObject::from_bytes: the while loop over content_bytes ----
\* One step of the recursion is the run of the loop from the start of a
\* record (element_bytes empty) to the push of its element: the loop copies
\* bytes up to stop, the first position that is at the declared length, past
\* the end of content_bytes, or holds 0x00.
LoopStop(content_bytes, length, current_pos) ==
    LET limit == IF length < Len(content_bytes) THEN length ELSE Len(content_bytes)
        zeros == {p \in current_pos..(limit - 1) : content_bytes[p + 1] = 0}
    IN IF zeros # {} THEN Least(zeros)
       ELSE IF limit < current_pos THEN current_pos ELSE limit

RECURSIVE TreeLoopScanning(_, _, _, _)
TreeLoopScanning(content_bytes, length, current_pos, elements) ==
    LET stop == LoopStop(content_bytes, length, current_pos)
        element_bytes == SubSeq(content_bytes, current_pos + 1, stop)
    IN IF ~(stop < length) THEN Ok([type |-> "Tree", length |-> length,
                                    content |-> <<>>, elements |-> elements])
       ELSE IF stop >= Len(content_bytes) THEN Panic("index out of bounds")
       ELSE IF stop + 1 + HashLen > Len(content_bytes)
            THEN Panic("range end out of range")
       ELSE LET e == TreeElement_from_bytes(
                         element_bytes \o SubSeq(content_bytes, stop + 1,
                                                 stop + 1 + HashLen))
            IN IF e.kind = "Ok"
               THEN TreeLoopScanning(content_bytes, length, stop + 1,
                                     Append(elements, e.el))
               ELSE [kind |-> e.kind, err |-> e.err, obj |-> NoObject]

RECURSIVE TreeLoop(_, _, _, _)
TreeLoop(content_bytes, length, current_pos, elements) ==
    LET stop == LoopStop(content_bytes, length, current_pos)
        element_bytes == SubSeq(content_bytes, current_pos + 1, stop)
    IN IF ~(stop < length) THEN Ok([type |-> "Tree", length |-> length,
                                    content |-> <<>>, elements |-> elements])
       ELSE IF stop >= Len(content_bytes) THEN Panic("index out of bounds")
       ELSE IF stop + 1 + HashLen > Len(content_bytes)
            THEN Panic("range end out of range")
       ELSE LET e == TreeElement_from_bytes(
                         element_bytes \o SubSeq(content_bytes, stop + 1,
                                                 stop + 1 + HashLen))
            IN IF e.kind = "Ok"
               THEN TreeLoop(content_bytes, length, stop + 1 + HashLen,
                             Append(elements, e.el))
               ELSE [kind |-> e.kind, err |-> e.err, obj |-> NoObject]

TreeObject_from_bytes(input) ==
    LET pos == Position(input, NUL)
        header_bytes == IF pos = -1 THEN input ELSE SubSeq(input, 1, pos)
        content_bytes == IF pos = -1 THEN input ELSE Skip(input, pos + 1)
        header == Split(header_bytes, SP)
        t == bytes_to_object_type(header[1])
    IN IF ~(t.ok /\ t.type = "Tree") THEN Err("Object is not of type Tree.")
       ELSE IF Len(header) < 2 THEN Panic("unwrap on None")
       ELSE IF ~IsUtf8(header[2]) THEN Err("FromUtf8Error")
       ELSE IF ~ParseU32(header[2]).ok THEN Err("ParseIntError")
       ELSE TreeLoop(content_bytes, ParseU32(header[2]).val, 0, <<>>)

\* ---- load_git_object: the decoding of the decompressed buffer ----
DecodeObject(buffer) ==
    LET parts == Split(buffer, NUL)
        header == Split(parts[1], SP)
        t == bytes_to_object_type(header[1])
    IN IF ~t.ok THEN Err(t.err)
       ELSE IF t.type = "Blob" THEN BlobObject_from_bytes(buffer)
       ELSE TreeObject_from_bytes(buffer)

\* ---- state ----
\* files: ./.git/objects/<folder>/<name> -> the bytes of the file
\* dirs:  the folders that exist under ./.git/objects
\* out:   the last command run by main, its arguments and what it produced
\* given: the object another git placed in the store before the first command
VARIABLES files, dirs, out, given

vars == <<files, dirs, out, given>>

NoOut == [cmd |-> "none", arg |-> <<>>, flag |-> FALSE, res |-> Ok(NoObject),
          id |-> <<>>, rows |-> <<>>, stdout |-> <<>>, overwrote |-> FALSE]

\* ---- inputs of hash-object: the content of the file at file_path ----
Alphabet == {NUL, SP, 97}

RECURSIVE SeqsUpTo(_, _)
SeqsUpTo(S, n) ==
    IF n = 0 THEN {<<>>}
    ELSE LET shorter == SeqsUpTo(S, n - 1)
         IN shorter \cup {Append(s, x) : s \in shorter, x \in S}

Contents == SeqsUpTo(Alphabet, MaxLen)
NotUtf8File == <<255>>
FileContents == Contents \cup {NotUtf8File}

\* ---- load_git_object ----
load_git_object(object_id) ==
    LET object_path == ObjectPath(object_id)
    IN IF object_path \notin DOMAIN files THEN Err("NotFound")
       ELSE LET d == zlib_decompress(files[object_path])
            IN IF ~d.ok THEN Err("corrupt deflate stream")
               ELSE DecodeObject(d.bytes)

\* ---- hash_object and its arm of main ----
\* what hash_object computes from the content of the file, before it looks
\* at the write flag; tabulated once per content
Hashed ==
    [file_content \in FileContents |->
        LET object_content == object_content_of(file_content)
            sha_hash == HexEncode(calculate_sha_hash(object_content))
        IN [readable |-> IsUtf8(file_content),
            object_content |-> object_content,
            sha_hash |-> sha_hash,
            full_path |-> ObjectPath(sha_hash),
            zlib_content |-> zlib_compress(object_content)]]

HashObjectAlwaysPersists(file_content, write) ==
    IF ~Hashed[file_content].readable
    THEN /\ out' = [NoOut EXCEPT !.cmd = "hash_object", !.arg = file_content,
                                 !.flag = write,
                                 !.res = Err("stream did not contain valid UTF-8")]
         /\ UNCHANGED <<files, dirs, given>>
    ELSE LET sha_hash == Hashed[file_content].sha_hash
             full_path == Hashed[file_content].full_path
             zlib_content == Hashed[file_content].zlib_content
         IN /\ full_path \notin DOMAIN files => Cardinality(DOMAIN files) < MaxObjects
            /\ dirs' = dirs \cup {full_path[1]}
            /\ files' = (full_path :> zlib_content) @@ files
            /\ out' = [NoOut EXCEPT !.cmd = "hash_object", !.arg = file_content,
                                    !.flag = write, !.id = sha_hash,
                                    !.stdout = sha_hash,
                                    !.overwrote = full_path \in DOMAIN files]
            /\ UNCHANGED given

HashObject(file_content, write) ==
    IF ~Hashed[file_content].readable
    THEN /\ out' = [NoOut EXCEPT !.cmd = "hash_object", !.arg = file_content,
                                 !.flag = write,
                                 !.res = Err("stream did not contain valid UTF-8")]
         /\ UNCHANGED <<files, dirs, given>>
    ELSE LET sha_hash == Hashed[file_content].sha_hash
             full_path == Hashed[file_content].full_path
             zlib_content == Hashed[file_content].zlib_content
         IN IF write
            THEN /\ full_path \notin DOMAIN files
                        => Cardinality(DOMAIN files) < MaxObjects
                 /\ dirs' = dirs \cup {full_path[1]}
                 /\ files' = (full_path :> zlib_content) @@ files
                 /\ out' = [NoOut EXCEPT !.cmd = "hash_object", !.arg = file_content,
                                         !.flag = write, !.id = sha_hash,
                                         !.stdout = sha_hash,
                                         !.overwrote = full_path \in DOMAIN files]
                 /\ UNCHANGED given
            ELSE /\ out' = [NoOut EXCEPT !.cmd = "hash_object", !.arg = file_content,
                                         !.flag = write, !.id = sha_hash,
                                         !.stdout = sha_hash]
                 /\ UNCHANGED <<files, dirs, given>>

\* ---- cat_file and its arm of main (the pretty flag is never read) ----
TodoText == <<84, 79, 68, 79>>

CatFile(object_id) ==
    LET result == load_git_object(object_id)
    IN /\ out' = [NoOut EXCEPT !.cmd = "cat_file", !.arg = object_id, !.res = result,
                               !.stdout = IF result.kind # "Ok" THEN <<>>
                                          ELSE IF result.obj.type = "Blob"
                                               THEN result.obj.content
                                               ELSE TodoText]
       /\ UNCHANGED <<files, dirs, given>>

\* ---- ls_tree and its arm of main ----
\* rows: one row per printed entry, a row being the fields it exposes
RECURSIVE JoinLines(_)
JoinLines(names) ==
    IF names = <<>> THEN <<>>
    ELSE IF Len(names) = 1 THEN names[1]
    ELSE names[1] \o <<10>> \o JoinLines(Tail(names))

LsTree(object_id, name_only) ==
    LET tree_object == load_git_object(object_id)
        names == IF tree_object.kind = "Ok" /\ tree_object.obj.type = "Tree"
                 THEN [i \in 1..Len(tree_object.obj.elements) |->
                          tree_object.obj.elements[i].name]
                 ELSE <<>>
    IN /\ out' = IF tree_object.kind # "Ok"
                 THEN [NoOut EXCEPT !.cmd = "ls_tree", !.arg = object_id,
                                    !.flag = name_only, !.res = tree_object]
                 ELSE IF tree_object.obj.type = "Tree"
                 THEN [NoOut EXCEPT !.cmd = "ls_tree", !.arg = object_id,
                                    !.flag = name_only,
                                    !.rows = [i \in 1..Len(names) |-> <<names[i]>>],
                                    !.stdout = JoinLines(names) \o <<10>>]
                 ELSE [NoOut EXCEPT !.cmd = "ls_tree", !.arg = object_id,
                                    !.flag = name_only,
                                    !.res = Err("Invalid object type.")]
       /\ UNCHANGED <<files, dirs, given>>

\* ---- objects written by another git: the layouts load_git_object reads ----
Mode100644 == <<49, 48, 48, 54, 52, 52>>
Mode40000 == <<52, 48, 48, 48, 48>>
NameA == <<97>>
NameSub == <<115, 117, 98>>
NameSpaced == <<98, 32, 99>>

\* twenty distinct bytes 'A'..'T', with byte b at position k and c at position m
HashWith(k, b, m, c) ==
    [i \in 1..HashLen |-> IF i = k THEN b ELSE IF i = m THEN c ELSE 64 + i]

GivenEntries ==
    { [mode |-> Mode100644, name |-> NameA, hash |-> HashWith(1, 65, 2, 66)],
      [mode |-> Mode100644, name |-> NameSub, hash |-> HashWith(3, NUL, 5, SP)],
      [mode |-> Mode40000, name |-> NameSpaced, hash |-> HashWith(1, SP, 20, NUL)],
      [mode |-> Mode40000, name |-> NameA, hash |-> HashWith(1, NUL, 20, SP)] }

GivenEntrySeqs == SeqsUpTo(GivenEntries, MaxEntries)

EntryBytes(e) == e.mode \o <<SP>> \o e.name \o <<NUL>> \o e.hash

RECURSIVE TreePayload(_)
TreePayload(entries) ==
    IF entries = <<>> THEN <<>>
    ELSE EntryBytes(entries[1]) \o TreePayload(Tail(entries))

ObjectBytes(type_token, length_field, payload) ==
    type_token \o <<SP>> \o length_field \o <<NUL>> \o payload

Given(class, entries, payload, buf) ==
    [class |-> class, entries |-> entries, payload |-> payload, buf |-> buf]

GivenTrees ==
    { Given("tree", es, TreePayload(es),
            ObjectBytes(TreeTok, ToDecimal(Len(TreePayload(es))), TreePayload(es)))
        : es \in GivenEntrySeqs }

\* the final record cut short: 10 bytes of its hash are missing, or the whole
\* hash and the terminator of the name; the header declares the length that
\* is left, or the length of the whole records
TruncCuts == {10, 21}

GivenTruncatedTrees ==
    { Given("truncated", g.entries, Take(g.payload, Len(g.payload) - cut),
            ObjectBytes(TreeTok,
                        ToDecimal(IF whole THEN Len(g.payload) ELSE Len(g.payload) - cut),
                        Take(g.payload, Len(g.payload) - cut)))
        : g \in {t \in GivenTrees : t.entries # <<>>}, cut \in TruncCuts,
          whole \in BOOLEAN }

GivenBlobPayloads ==
    { <<>>, <<97>>, <<97, 32, 98>>, <<97, NUL, 98>>, <<NUL>>, <<NUL, 97, NUL>>,
      <<195, 169>>, <<97, 255>> }

GivenBlobs ==
    { Given("blob", <<>>, pl, ObjectBytes(BlobTok, ToDecimal(Len(pl)), pl))
        : pl \in GivenBlobPayloads }

GivenCommits ==
    { Given("commit", <<>>, pl, ObjectBytes(CommitTok, ToDecimal(Len(pl)), pl))
        : pl \in {<<>>, <<97>>, <<97, NUL, 98>>} }

GivenUnknownTypes ==
    { Given("unknown", <<>>, <<97>>, ObjectBytes(tok, <<49>>, <<97>>))
        : tok \in {TagTok, <<>>, BlobTok \o <<120>>, <<66, 108, 111, 98>>} }

\* no 0x00 at all; no 0x20 in the header; a length that is no decimal number
GivenMalformedHeaders ==
    { Given("no_nul", <<>>, <<>>, tok \o <<SP>> \o len)
        : tok \in {BlobTok, TreeTok}, len \in {<<48>>, <<51>>} }
    \cup
    { Given("no_space", <<>>, pl, tok \o <<NUL>> \o pl)
        : tok \in {BlobTok, TreeTok}, pl \in {<<>>, <<97>>} }
    \cup
    { Given("bad_length", <<>>, <<97>>, ObjectBytes(tok, len, <<97>>))
        : tok \in {BlobTok, TreeTok},
          len \in {<<>>, <<120>>, <<45, 49>>, <<49, 120>>, <<255>>,
                   <<52, 50, 57, 52, 57, 54, 55, 50, 57, 54>>} }

GivenCorrupt == { Given("corrupt", <<>>, <<>>, <<>>) }

GivenObjects ==
    GivenTrees \cup GivenTruncatedTrees \cup GivenBlobs \cup GivenCommits
    \cup GivenUnknownTypes \cup GivenMalformedHeaders \cup GivenCorrupt

NoGiven == Given("none", <<>>, <<>>, <<>>)

GivenId(g) == HexEncode(calculate_sha_hash(g.buf))

StoredBytes(g) ==
    IF g.class = "corrupt" THEN <<120, 156, 1>> ELSE zlib_compress(g.buf)

\* ---- object ids typed on the command line ----
MissingId == [i \in 1..(2 * DigestLen) |-> 102]
IdOfPath(path) == path[1] \o path[2]
ObjectIds == {IdOfPath(path) : path \in DOMAIN files} \cup {MissingId}

\* ---- the repository after init, with no object ----
Init ==
    /\ files = <<>>
    /\ dirs = {}
    /\ out = NoOut
    /\ given = NoGiven

Next ==
    \/ \E file_content \in FileContents, write \in BOOLEAN :
          HashObject(file_content, write)
    \/ \E object_id \in ObjectIds : CatFile(object_id)
    \/ \E object_id \in ObjectIds, name_only \in BOOLEAN :
          LsTree(object_id, name_only)

Spec == Init /\ [][Next]_vars

\* ---- a repository holding one object written by another git ----
InitGiven ==
    /\ given \in GivenObjects
    /\ files = (ObjectPath(GivenId(given)) :> StoredBytes(given))
    /\ dirs = {ObjectPath(GivenId(given))[1]}
    /\ out = NoOut

NextRead ==
    \/ \E object_id \in ObjectIds : CatFile(object_id)
    \/ \E object_id \in ObjectIds, name_only \in BOOLEAN :
          LsTree(object_id, name_only)

SpecRead == InitGiven /\ [][NextRead]_vars

\* ======================= the claims =======================

\* the last command read the object that was given
ReadGiven(cmd) == out.cmd = cmd /\ out.arg = GivenId(given)

AfterFirstNul(buffer) == Skip(buffer, Position(buffer, NUL) + 1)

\* C1: an object written by hash_object with write=true and then read by its
\* returned id is a Blob whose content equals the payload that was written,
\* for every payload over Alphabet (which holds 0x00 and 0x20).
C1_RoundTrip ==
    \A payload \in Contents :
        (/\ out.cmd = "cat_file"
         /\ out.arg = Hashed[payload].sha_hash
         /\ ObjectPath(out.arg) \in DOMAIN files)
        => /\ out.res.kind = "Ok"
           /\ out.res.obj.type = "Blob"
           /\ out.res.obj.content = payload

\* C2: the content of a decoded Blob is every byte after the first 0x00 of the
\* decompressed bytes, further 0x00 bytes included (stated for payloads that
\* are valid UTF-8, which the lossy conversion leaves as they are).
C2_FirstNulOnly ==
    (given.class = "blob" /\ IsUtf8(given.payload) /\ ReadGiven("cat_file"))
    => /\ out.res.kind = "Ok"
       /\ out.res.obj.content = AfterFirstNul(given.buf)

\* C3: every record of a well-formed tree is parsed to an element whose hash is
\* the 20 bytes after the 0x00 of the name, and whose mode and name are the
\* bytes before and after the first 0x20 of the record.
C3_EntryFields ==
    (given.class = "tree" /\ ReadGiven("cat_file"))
    => /\ out.res.kind = "Ok"
       /\ Len(out.res.obj.elements) = Len(given.entries)
       /\ \A i \in 1..Len(given.entries) :
             /\ out.res.obj.elements[i].hash = given.entries[i].hash
             /\ out.res.obj.elements[i].mode = given.entries[i].mode
             /\ out.res.obj.elements[i].name = given.entries[i].name

\* C4: reading a tree whose final record is truncated yields an error value:
\* no panic, and no tree that leaves the final record out.
C4_TruncatedIsError ==
    (given.class = "truncated" /\ (ReadGiven("cat_file") \/ ReadGiven("ls_tree")))
    => out.res.kind = "Err"

\* C5: ls-tree --name-only of a well-formed tree of n records lists exactly the
\* n names in the order of the records, whatever bytes the hashes hold.
C5_NamesInOrder ==
    (given.class = "tree" /\ ReadGiven("ls_tree") /\ out.flag)
    => /\ out.res.kind = "Ok"
       /\ out.rows = [i \in 1..Len(given.entries) |-> <<given.entries[i].name>>]

C5_Witness ==
    /\ given.class = "tree"
    /\ ReadGiven("ls_tree")
    /\ out.flag
    /\ out.res.kind = "Ok"
    /\ Len(out.rows) = 2
    /\ \A i \in 1..2 : \E k, m \in 1..HashLen :
          given.entries[i].hash[k] = NUL /\ given.entries[i].hash[m] = SP

\* C6: hash_object without write changes no file and no directory of the store,
\* and returns the id that hash_object with write returns for the same content.
C6_DryRun ==
    [][/\ (out'.cmd = "hash_object" /\ ~out'.flag)
            => (files' = files /\ dirs' = dirs)
       /\ (/\ out.cmd = "hash_object" /\ out'.cmd = "hash_object"
           /\ out.arg = out'.arg /\ out.flag # out'.flag)
            => (out'.id = out.id /\ out'.res = out.res)]_vars

C6_Witness ==
    /\ out.cmd = "hash_object"
    /\ ~out.flag
    /\ out.res.kind = "Ok"
    /\ Len(out.id) = 2 * DigestLen
    /\ ObjectPath(out.id) \notin DOMAIN files
    /\ files # <<>>

\* C7: a file of the store is never removed and its bytes never change; a
\* write of a content that is already stored returns the id of the stored
\* object and leaves the store as it was.
C7_Immutable ==
    [][/\ \A path \in DOMAIN files :
             path \in DOMAIN files' /\ files'[path] = files[path]
       /\ dirs \subseteq dirs'
       /\ (out'.cmd = "hash_object" /\ out'.flag /\ out'.overwrote)
            => /\ files' = files
               /\ zlib_decompress(files[ObjectPath(out'.id)]).bytes
                     = BlobTok \o <<SP>> \o ToDecimal(Len(out'.arg))
                          \o <<NUL>> \o out'.arg]_vars

C7_Witness ==
    /\ out.cmd = "hash_object"
    /\ out.flag
    /\ out.overwrote
    /\ Cardinality(DOMAIN files) = 2

\* C8: reading an object whose header has no 0x00, no 0x20, or a length that
\* is no non-negative decimal integer yields an error value: no panic, and no
\* decoded object.
C8_MalformedHeaderIsError ==
    (given.class \in {"no_nul", "no_space", "bad_length"} /\ ReadGiven("cat_file"))
    => out.res.kind = "Err"

\* C9: an object whose type token is "commit" is read as a Commit with its
\* payload left as it is, and any type token other than blob, tree and commit
\* yields the error "Invalid object type.".
C9_ClosedTypeSet ==
    /\ (given.class = "commit" /\ ReadGiven("cat_file"))
         => /\ out.res.kind = "Ok"
            /\ out.res.obj.type = "Commit"
            /\ out.res.obj.content = given.payload
    /\ (given.class = "unknown" /\ ReadGiven("cat_file"))
         => /\ out.res.kind = "Err"
            /\ out.res.err = "Invalid object type."

\* C10: ls-tree lists one row per record in record order; a row is the name
\* when name_only is set, and the mode, type, hash and name when it is not.
C10_ListingModes ==
    (given.class = "tree" /\ ReadGiven("ls_tree"))
    => /\ out.res.kind = "Ok"
       /\ Len(out.rows) = Len(given.entries)
       /\ \A i \in 1..Len(given.entries) :
             out.rows[i] = IF out.flag
                           THEN <<given.entries[i].name>>
                           ELSE <<given.entries[i].mode, BlobTok,
                                  given.entries[i].hash, given.entries[i].name>>
====
